---- MODULE Spec2Model ----
(***************************************************************************)
(* Model of the synthetic-message generation pipeline                      *)
(* (generation/perturbations.py, generation/generate_dataset.py,           *)
(* generation/templates.py, generation/slot_pools.py).                     *)
(*                                                                         *)
(* Text is modelled character by character as strings: a character is a    *)
(* string of length 1, obtained with SubSeq.  The deterministic random     *)
(* source random.Random is modelled as a full-period linear congruential   *)
(* generator on RngMod states: equal seeds give equal draw sequences, and  *)
(* every primitive draw advances the state by one step.                    *)
(***************************************************************************)
EXTENDS Integers, Sequences, FiniteSets, TLC

(***************************************************************************)
(* Bounds of the model.                                                    *)
(***************************************************************************)
\* Seeds passed to generate range over 0..MaxSeed.
MaxSeed == 1
\* Replicates per (intent, generator) cell; the source locks it to 60.
N_PER_GENERATOR == 2
\* Requested perturbation counts range over -1 .. RegistrySize + MaxExtraN.
MaxExtraN == 1

(***************************************************************************)
(* Strings                                                                 *)
(***************************************************************************)
\* Stand-in for U+2026 (horizontal ellipsis), which the module's character
\* set cannot spell; no other text of the model contains it.
HELLIP == "~"

LowerChar(c) ==
  CASE c = "A" -> "a" [] c = "B" -> "b" [] c = "C" -> "c" [] c = "D" -> "d"
    [] c = "E" -> "e" [] c = "F" -> "f" [] c = "G" -> "g" [] c = "H" -> "h"
    [] c = "I" -> "i" [] c = "J" -> "j" [] c = "K" -> "k" [] c = "L" -> "l"
    [] c = "M" -> "m" [] c = "N" -> "n" [] c = "O" -> "o" [] c = "P" -> "p"
    [] c = "Q" -> "q" [] c = "R" -> "r" [] c = "S" -> "s" [] c = "T" -> "t"
    [] c = "U" -> "u" [] c = "V" -> "v" [] c = "W" -> "w" [] c = "X" -> "x"
    [] c = "Y" -> "y" [] c = "Z" -> "z" [] OTHER -> c

\* str.lower, by halves so that the evaluation stays shallow
RECURSIVE StrLower(_)
StrLower(s) ==
  IF Len(s) = 0 THEN ""
  ELSE IF Len(s) = 1 THEN LowerChar(s)
  ELSE LET h == Len(s) \div 2
       IN StrLower(SubSeq(s, 1, h)) \o StrLower(SubSeq(s, h + 1, Len(s)))

MinOf(S) == CHOOSE x \in S : \A y \in S : x <= y
MaxOf(S) == CHOOSE x \in S : \A y \in S : x >= y

CharAt(s, i) == SubSeq(s, i, i)

StartsWith(s, p) == Len(s) >= Len(p) /\ SubSeq(s, 1, Len(p)) = p

EndsWith(s, p) == Len(s) >= Len(p) /\ SubSeq(s, Len(s) - Len(p) + 1, Len(s)) = p

Contains(s, p) == \E i \in 1..(Len(s) - Len(p) + 1) : SubSeq(s, i, i + Len(p) - 1) = p

DropLast(s) == SubSeq(s, 1, Len(s) - 1)

\* str.rstrip(chars): the text up to its last character outside chars
RStrip(s, chars) ==
  LET keep == { k \in 1..Len(s) : CharAt(s, k) \notin chars }
  IN IF keep = {} THEN "" ELSE SubSeq(s, 1, MaxOf(keep))

WordCharString == "abcdefghijklmnopqrstuvwxyzABCDEFGHIJKLMNOPQRSTUVWXYZ0123456789_"

WordChars == { CharAt(WordCharString, i) : i \in 1..Len(WordCharString) }

\* \b of the regular expressions: position p (between characters p-1 and p)
\* is a boundary when exactly one of its two sides is a word character.
IsWordAt(s, q) == q >= 1 /\ q <= Len(s) /\ CharAt(s, q) \in WordChars

WordBoundary(s, p) == IsWordAt(s, p - 1) # IsWordAt(s, p)

\* \b<pat>\b matches at position i, letter case ignored (lowered and lowpat
\* are the text and the pattern in lower case)
MatchAt(s, lowered, i, lowpat) ==
  /\ i + Len(lowpat) - 1 <= Len(s)
  /\ SubSeq(lowered, i, i + Len(lowpat) - 1) = lowpat
  /\ WordBoundary(s, i)
  /\ WordBoundary(s, i + Len(lowpat))

\* The scan of re.sub from position i: the text up to the leftmost match,
\* the replacement, and the scan resumed after the match.
RECURSIVE ReSubFrom(_, _, _, _, _)
ReSubFrom(s, lowered, i, lowpat, repl) ==
  LET matches == { q \in i..Len(s) : MatchAt(s, lowered, q, lowpat) }
  IN IF matches = {} THEN SubSeq(s, i, Len(s))
     ELSE SubSeq(s, i, MinOf(matches) - 1) \o repl
            \o ReSubFrom(s, lowered, MinOf(matches) + Len(lowpat), lowpat, repl)

\* re.sub(r"\b<pat>\b", repl, s, flags=re.IGNORECASE)
ReSubWord(pat, repl, s) == ReSubFrom(s, StrLower(s), 1, StrLower(pat), repl)

(***************************************************************************)
(* The random source                                                       *)
(***************************************************************************)
RngMod == 32
RngMul == 5
RngInc == 3

\* random.Random(seed): the state a seed determines.
NewRandom(seed) == seed % RngMod

\* One primitive draw: the successor state, whose value u stands for the
\* float u / RngMod in [0, 1).
RngNext(s) == (RngMul * s + RngInc) % RngMod

\* rng.choice(seq) after the draw that left the source in state s1.
ChoiceOf(seq, s1) == seq[((s1 * Len(seq)) \div RngMod) + 1]

\* rng.randint(0, hi) after the draw that left the source in state s1.
RandIntOf(hi, s1) == (s1 * (hi + 1)) \div RngMod

(***************************************************************************)
(* perturbations.py: the transforms.  A transform that consumes the random *)
(* source returns the new text and the source's state after its draws.     *)
(***************************************************************************)
_lowercase_first_char(text) ==
  IF text = "" THEN text ELSE LowerChar(Head(text)) \o Tail(text)

_add_extra_question_mark(text) ==
  IF EndsWith(text, "?") THEN text \o "?"
  ELSE IF EndsWith(text, ".") \/ EndsWith(text, "!") THEN DropLast(text) \o "?"
  ELSE text \o "?"

_add_ellipsis(text) ==
  IF EndsWith(text, "...") \/ EndsWith(text, HELLIP) THEN text ELSE text \o "..."

_strip_end_punct(text) == RStrip(text, {"?", ".", "!", HELLIP})

markers_start == <<"Please", "Could you", "Can you", "Hey,">>
markers_end == <<"thanks", "thank you", "pls">>

_inject_politeness(text, rng) ==
  LET s1 == RngNext(rng)
      s2 == RngNext(s1)
  IN IF s1 * 10 < 6 * RngMod
     THEN LET m == ChoiceOf(markers_start, s2)
          IN [out |-> IF StartsWith(StrLower(text), StrLower(m))
                      THEN text ELSE m \o " " \o text,
              rng |-> s2]
     ELSE LET m == ChoiceOf(markers_end, s2)
          IN [out |-> IF EndsWith(StrLower(text), m)
                      THEN text ELSE text \o " " \o m,
              rng |-> s2]

prefixes == <<"For a class,", "At work,", "In my project,", "Quick question,", "Context:">>

_inject_context_prefix(text, rng) ==
  LET s1 == RngNext(rng)
      p == ChoiceOf(prefixes, s1)
  IN [out |-> IF \E k \in 1..Len(prefixes) : StartsWith(text, prefixes[k])
              THEN text ELSE p \o " " \o text,
      rng |-> s1]

hedges == <<"I think", "maybe", "I'm not sure but", "not sure if this is right, but">>

hedge_guards == <<"i think", "maybe", "im not sure", "not sure">>

_inject_hedge(text, rng) ==
  LET s1 == RngNext(rng)
      h == ChoiceOf(hedges, s1)
  IN [out |-> IF \E k \in 1..Len(hedge_guards) : StartsWith(StrLower(text), hedge_guards[k])
              THEN text ELSE h \o " " \o text,
      rng |-> s1]

swaps == << <<"explain", "describe">>, <<"fix", "resolve">>, <<"plan", "schedule">>,
            <<"compute", "calculate">>, <<"briefly", "quickly">> >>

_synonym_swap(text, rng) ==
  LET s1 == RngNext(rng)
      pr == ChoiceOf(swaps, s1)
  IN [out |-> ReSubWord(pr[1], pr[2], text), rng |-> s1]

replacements == << <<"what's", "whats">>, <<"please", "pls">>, <<"can't", "cant">>,
                   <<"thanks", "thx">>, <<"I don't know", "idk">> >>

_minor_typo(text, rng) ==
  LET s1 == RngNext(rng)
      pr == ChoiceOf(replacements, s1)
  IN [out |-> ReSubWord(pr[1], pr[2], text), rng |-> s1]

phrases == <<"briefly", "step by step", "no code", "with an example",
             "in 3 bullet points", "final answer only", "keep it short">>

_inject_constraint_phrase(text, rng) ==
  LET s1 == RngNext(rng)
      ph == ChoiceOf(phrases, s1)
      lower == StrLower(text)
  IN [out |-> IF Contains(lower, "keep it") \/ Contains(lower, "final answer")
              THEN text
              ELSE IF EndsWith(text, "?")
                   THEN DropLast(text) \o ", " \o ph \o "?"
                   ELSE text \o " (" \o ph \o ")",
      rng |-> s1]

(***************************************************************************)
(* perturbations.py: the registry.  Weights are in tenths.                 *)
(***************************************************************************)
PERTURBATIONS == <<
  [name |-> "lowercase_first_char",     uses_rng |-> FALSE, weight |-> 10],
  [name |-> "extra_question_mark",      uses_rng |-> FALSE, weight |-> 9],
  [name |-> "ellipsis",                 uses_rng |-> FALSE, weight |-> 6],
  [name |-> "strip_end_punct",          uses_rng |-> FALSE, weight |-> 4],
  [name |-> "inject_politeness",        uses_rng |-> TRUE,  weight |-> 9],
  [name |-> "inject_context_prefix",    uses_rng |-> TRUE,  weight |-> 8],
  [name |-> "inject_hedge",             uses_rng |-> TRUE,  weight |-> 7],
  [name |-> "synonym_swap",             uses_rng |-> TRUE,  weight |-> 9],
  [name |-> "minor_typo",               uses_rng |-> TRUE,  weight |-> 7],
  [name |-> "inject_constraint_phrase", uses_rng |-> TRUE,  weight |-> 9] >>

RegistrySize == Len(PERTURBATIONS)

RegistryNames == { PERTURBATIONS[k].name : k \in 1..RegistrySize }

\* fn(out) of a pure entry: the call passes the text alone.
CallPure(name, text) ==
  CASE name = "lowercase_first_char" -> _lowercase_first_char(text)
    [] name = "extra_question_mark"  -> _add_extra_question_mark(text)
    [] name = "ellipsis"             -> _add_ellipsis(text)
    [] name = "strip_end_punct"      -> _strip_end_punct(text)

\* fn(out, rng) of an entry that consumes the random source.
CallWithRng(name, text, rng) ==
  CASE name = "inject_politeness"        -> _inject_politeness(text, rng)
    [] name = "inject_context_prefix"    -> _inject_context_prefix(text, rng)
    [] name = "inject_hedge"             -> _inject_hedge(text, rng)
    [] name = "synonym_swap"             -> _synonym_swap(text, rng)
    [] name = "minor_typo"               -> _minor_typo(text, rng)
    [] name = "inject_constraint_phrase" -> _inject_constraint_phrase(text, rng)

RECURSIVE CumWeight(_)
CumWeight(k) == IF k = 0 THEN 0 ELSE CumWeight(k - 1) + PERTURBATIONS[k].weight

TotalWeight == CumWeight(RegistrySize)

\* rng.choices(PERTURBATIONS, weights=weights, k=1)[0] after the draw that
\* left the source in state s1: bisect of the cumulative weights at
\* random() * total.
ChoicesOf(s1) ==
  PERTURBATIONS[CHOOSE k \in 1..RegistrySize :
                  /\ CumWeight(k) * RngMod > s1 * TotalWeight
                  /\ \A m \in 1..(k - 1) : CumWeight(m) * RngMod <= s1 * TotalWeight]

ChosenNames(chosen) == { chosen[k].name : k \in 1..Len(chosen) }

(***************************************************************************)
(* templates.py, slot_pools.py: taxonomy and vocabulary.  The model keeps  *)
(* the first two intents of the taxonomy with their templates, all five    *)
(* generator families, and the slot pools those templates use.             *)
(***************************************************************************)
INTENTS == <<"information_seeking", "how_to">>

GENERATORS == <<"direct", "polite", "contextual", "constraint_heavy", "noisy">>

LockedTemplates ==
  [information_seeking |->
     [direct           |-> <<"What is {concept}?">>,
      polite           |-> <<"Could you explain {concept} in simple terms?">>,
      contextual       |-> <<"In machine learning, why does {phenomenon} happen?">>,
      constraint_heavy |-> <<"Explain {concept} briefly, with {constraint}.">>,
      noisy            |-> <<"whats {concept} and why it matters??">>],
   how_to |->
     [direct           |-> <<"How do I {task}?">>,
      polite           |-> <<"Please show me how to {task}.">>,
      contextual       |-> <<"I'm new to {tool}; how can I {task}?">>,
      constraint_heavy |-> <<"How do I {task}? Keep it {constraint}.">>,
      noisy            |-> <<"how to {task} on {tool}??">>]]

LockedSlots ==
  [concept    |-> <<"cosine similarity", "sentence embeddings", "overfitting",
                    "cross-validation", "PCA", "transformers", "clustering",
                    "gradient descent", "tokenization", "regularization">>,
   phenomenon |-> <<"overfitting", "vanishing gradients", "mode collapse",
                    "data leakage", "covariate shift">>,
   tool       |-> <<"Python", "PyTorch", "scikit-learn", "Docker", "Git", "Linux",
                    "VS Code", "Jupyter">>,
   task       |-> <<"create a virtual environment", "compute sentence embeddings",
                    "save a dataframe to parquet", "run KMeans on embeddings",
                    "normalize vectors", "load a CSV file", "tokenize a text dataset",
                    "reduce dimensionality with PCA">>,
   constraint |-> <<"one example", "3 bullet points", "no equations", "step by step",
                    "no code", "with code", "final answer only", "keep it short">>]

\* The configurations a run is given: the locked one, and four broken ones.
BrokenConfigs == {"missing_intent", "missing_generator", "empty_templates", "missing_slot"}

TemplatesOf(c) ==
  CASE c = "missing_intent" ->
         [i \in {"information_seeking"} |-> LockedTemplates[i]]
    [] c = "missing_generator" ->
         [LockedTemplates EXCEPT !["how_to"] =
            [g \in {"direct", "polite", "contextual", "constraint_heavy"} |-> @[g]]]
    [] c = "empty_templates" ->
         [LockedTemplates EXCEPT !["how_to"]["polite"] = <<>>]
    [] OTHER -> LockedTemplates

SlotsOf(c) ==
  IF c = "missing_slot"
  THEN [k \in (DOMAIN LockedSlots) \ {"tool"} |-> LockedSlots[k]]
  ELSE LockedSlots

(***************************************************************************)
(* generate_dataset.py: configuration and helpers                          *)
(***************************************************************************)
LANG == "en"
SOURCE == "synthetic"

N_PERTURB_LOCKED == 3

TRAIN_GENS == {"direct", "polite", "contextual"}
TEST_GENS == {"constraint_heavy", "noisy"}

\* Upper end of the per-row seed range (2**31 - 1 in the source), scaled to
\* the model's seed space.
MaxRowSeed == RngMod - 1

\* SLOT_PATTERN.findall(template): \{([a-zA-Z0-9_]+)\}
\* the position of the first c at or after p, Len(s) + 1 when there is none
FindChar(s, c, p) ==
  LET found == { q \in p..Len(s) : CharAt(s, q) = c }
  IN IF found = {} THEN Len(s) + 1 ELSE MinOf(found)

\* the end of the longest run of word characters that starts at p (p - 1
\* when position p holds none)
WordRunEnd(s, p) ==
  LET stops == { q \in p..Len(s) : ~IsWordAt(s, q) }
  IN IF stops = {} THEN Len(s) ELSE MinOf(stops) - 1

\* The scan of findall from position i: the next "{", then a non-empty run
\* of word characters closed by "}".
RECURSIVE ExtractFrom(_, _)
ExtractFrom(s, i) ==
  LET b == FindChar(s, "{", i)
      e == WordRunEnd(s, b + 1)
  IN IF b > Len(s) THEN <<>>
     ELSE IF e >= b + 1 /\ e + 1 <= Len(s) /\ CharAt(s, e + 1) = "}"
          THEN <<SubSeq(s, b + 1, e)>> \o ExtractFrom(s, e + 2)
          ELSE ExtractFrom(s, b + 1)

extract_slots(tpl) == ExtractFrom(tpl, 1)

\* template.format(**values), for templates whose braces are all slot
\* placeholders: every {name} is replaced by values[name].
RECURSIVE FormatFrom(_, _, _)
FormatFrom(s, i, vals) ==
  LET b == FindChar(s, "{", i)
      e == FindChar(s, "}", b + 1)
  IN IF b > Len(s) THEN SubSeq(s, i, Len(s))
     ELSE SubSeq(s, i, b - 1) \o vals[SubSeq(s, b + 1, e - 1)]
            \o FormatFrom(s, e + 1, vals)

Format(tpl, vals) == FormatFrom(tpl, 1, vals)

\* Mutant of SetValue: a slot that already has a value keeps it.
KeepFirstValue(vals, s, v) ==
  IF s \in DOMAIN vals THEN vals
  ELSE [x \in (DOMAIN vals) \cup {s} |-> IF x = s THEN v ELSE vals[x]]

\* values[s] = v
SetValue(vals, s, v) ==
  [x \in (DOMAIN vals) \cup {s} |-> IF x = s THEN v ELSE vals[x]]

\* Mutant of generator_split: the two labels are swapped.
generator_split_swapped(generator_id) ==
  IF generator_id \in TRAIN_GENS THEN [raised |-> FALSE, value |-> "test_gen"]
  ELSE IF generator_id \in TEST_GENS THEN [raised |-> FALSE, value |-> "train_gen"]
  ELSE [raised |-> TRUE,
        value |-> "Unknown generator_id for split: " \o generator_id]

\* generator_split: the label, or the ValueError it raises.
generator_split(generator_id) ==
  IF generator_id \in TRAIN_GENS THEN [raised |-> FALSE, value |-> "train_gen"]
  ELSE IF generator_id \in TEST_GENS THEN [raised |-> FALSE, value |-> "test_gen"]
  ELSE [raised |-> TRUE,
        value |-> "Unknown generator_id for split: " \o generator_id]

DigitString == "0123456789"

RECURSIVE IntToStr(_)
IntToStr(k) ==
  IF k < 10 THEN CharAt(DigitString, k + 1)
  ELSE IntToStr(k \div 10) \o CharAt(DigitString, (k % 10) + 1)

RECURSIVE ZeroPad(_, _)
ZeroPad(str, width) == IF Len(str) >= width THEN str ELSE ZeroPad("0" \o str, width)

\* f"msg_{intent}_{generator_id}_{idx:04d}"
\* Mutant of make_message_id: the replicate index is not zero-padded.
make_message_id_unpadded(intent, generator_id, idx) ==
  "msg_" \o intent \o "_" \o generator_id \o "_" \o IntToStr(idx)

make_message_id(intent, generator_id, idx) ==
  "msg_" \o intent \o "_" \o generator_id \o "_" \o ZeroPad(IntToStr(idx), 4)

\* ";".join(applied)
RECURSIVE Join(_, _)
Join(seq, sep) ==
  IF seq = <<>> THEN ""
  ELSE IF Len(seq) = 1 THEN seq[1]
  ELSE seq[1] \o sep \o Join(Tail(seq), sep)

\* lambda s: 0 if not s else len(s.split(";"))
CountNames(str) ==
  IF str = "" THEN 0
  ELSE 1 + Cardinality({ i \in 1..Len(str) : CharAt(str, i) = ";" })

(***************************************************************************)
(* templates.py: stable_template_id.  The SHA-1 digest prefix is modelled  *)
(* by a 16-bit position-weighted checksum of the payload, in hexadecimal.  *)
(***************************************************************************)
CodeString ==
  " !#$%&'()*+,-./0123456789:;<=>?@ABCDEFGHIJKLMNOPQRSTUVWXYZ[]^_abcdefghijklmnopqrstuvwxyz{|}~"

CodeTable ==
  [c \in { CharAt(CodeString, i) : i \in 1..Len(CodeString) } |->
     CHOOSE i \in 1..Len(CodeString) : CharAt(CodeString, i) = c]

CharCode(c) == IF c \in DOMAIN CodeTable THEN CodeTable[c] ELSE 0

\* the sum over the positions lo..hi of position * character code
RECURSIVE WeightedSum(_, _, _)
WeightedSum(str, lo, hi) ==
  IF lo > hi THEN 0
  ELSE IF lo = hi THEN lo * CharCode(CharAt(str, lo))
  ELSE LET mid == (lo + hi) \div 2
       IN WeightedSum(str, lo, mid) + WeightedSum(str, mid + 1, hi)

Checksum(str) == WeightedSum(str, 1, Len(str)) % 65536

HexString == "0123456789abcdef"

RECURSIVE HexDigits(_, _)
HexDigits(k, width) ==
  IF width = 0 THEN ""
  ELSE HexDigits(k \div 16, width - 1) \o CharAt(HexString, (k % 16) + 1)

\* Mutant of TemplatePayload: the template index is left out of the payload.
PayloadWithoutIndex(intent, generator, index, text) ==
  intent \o "||" \o generator \o "||" \o text

TemplatePayload(intent, generator, index, text) ==
  intent \o "||" \o generator \o "||" \o IntToStr(index) \o "||" \o text

stable_template_id(intent, generator, index, text) ==
  "tpl_" \o HexDigits(Checksum(TemplatePayload(intent, generator, index, text)), 4)

(***************************************************************************)
(* State                                                                   *)
(***************************************************************************)
VARIABLES
  op,           \* the operation in progress: "none" or a function's name
  pc,           \* the position in it
  config,       \* the taxonomy/vocabulary configuration in force
  N_PERTURB,    \* generate_dataset.N_PERTURB
  seed,         \* generate's argument
  run,          \* 1 for a first run of generate, 2 for its repetition
  prev,         \* the dataset the first run returned
  global_rng,   \* generate: global_rng
  rows,         \* generate: rows
  ii, gi, j,    \* generate: positions of the three nested loops
  template,     \* generate / fill_template: template
  template_id,  \* generate: template_id
  row_seed,     \* generate: row_seed
  filled,       \* generate: filled
  rng,          \* the row-scoped (or caller-supplied) random source
  slots,        \* fill_template: slots
  values,       \* fill_template: values
  si,           \* fill_template: position of the loop over slots
  drawn,        \* history: the (slot, value) draws fill_template has made
  text,         \* apply_perturbations: text
  n,            \* apply_perturbations / sample_perturbations: n
  chosen,       \* sample_perturbations: chosen (and the list returned)
  out,          \* apply_perturbations: out
  applied,      \* apply_perturbations: applied
  ai,           \* apply_perturbations: position of the loop over the sample
  calls,        \* history: the transform calls apply_perturbations has made
  ret,          \* the value the operation returned
  err,          \* the error the operation raised
  draws,        \* history: the weighted draws sample_perturbations has made
  rng_sampled,  \* history: the random source as sample_perturbations left it
  csv_written,  \* save: the CSV file is on disk, complete
  parquet_state,\* save: "none", "written" or "failed"
  printed       \* the lines save / check_slots.main have printed

vars == <<op, pc, config, N_PERTURB, seed, run, prev, global_rng, rows, ii, gi, j,
          template, template_id, row_seed, filled, rng, slots, values, si, drawn,
          text, n,
          chosen, out, applied, ai, calls, ret, err,
          draws, rng_sampled, csv_written, parquet_state, printed>>

genVars == <<seed, run, prev, global_rng, rows, ii, gi, j, template_id, row_seed, filled>>
fillVars == <<slots, values, si, drawn>>
sampleVars == <<n, chosen>>
applyVars == <<text, out, applied, ai, calls>>
histVars == <<draws, rng_sampled>>
saveVars == <<csv_written, parquet_state, printed>>
auxVars == <<histVars, saveVars>>

TEMPLATES == TemplatesOf(config)
SLOTS == SlotsOf(config)

NoError == [type |-> "", msg |-> ""]

Seeds == 0..MaxSeed
PerturbCounts == (0 - 1)..(RegistrySize + MaxExtraN)

\* (configuration, N_PERTURB) pairs generate is run under
RunConfigs ==
  { <<"locked", np>> : np \in PerturbCounts }
    \cup { <<c, N_PERTURB_LOCKED>> : c \in BrokenConfigs }

\* texts apply_perturbations is called with directly
CallTexts == {"", "Please fix the plan.", "I'm not sure but what's PCA?"}

\* templates fill_template is called with directly
CallTemplates ==
  {"no slots here", "how to {task} on {tool}??", "I'm new to {tool}; how can I {task}?",
   "{concept} or {concept}?"}

Init ==
  /\ op = "none" /\ pc = "idle"
  /\ config = "locked" /\ N_PERTURB = N_PERTURB_LOCKED
  /\ seed = 0 /\ run = 0 /\ prev = <<>>
  /\ global_rng = 0 /\ rows = <<>>
  /\ ii = 0 /\ gi = 0 /\ j = 0
  /\ template = "" /\ template_id = "" /\ row_seed = 0 /\ filled = ""
  /\ rng = 0
  /\ slots = <<>> /\ values = <<>> /\ si = 0 /\ drawn = <<>>
  /\ text = "" /\ n = 0 /\ chosen = <<>>
  /\ out = "" /\ applied = <<>> /\ ai = 0 /\ calls = <<>>
  /\ ret = <<>> /\ err = NoError
  /\ draws = 0 /\ rng_sampled = 0
  /\ csv_written = FALSE /\ parquet_state = "none" /\ printed = <<>>

(***************************************************************************)
(* generate                                                                *)
(***************************************************************************)
\* Mutant of GlobalRngFor: the global source is not re-created from the seed
\* but kept from whatever used it before.
GlobalRngKept(sd) == global_rng

\* rows = []; global_rng = random.Random(seed)
GlobalRngFor(sd) == NewRandom(sd)

StartGenerate(sd) ==
  /\ rows' = <<>>
  /\ global_rng' = GlobalRngFor(sd)
  /\ ii' = 1
  /\ pc' = "gen_intent"

CallGenerate(sd, rc) ==
  /\ pc = "idle"
  /\ op' = "generate" /\ config' = rc[1] /\ N_PERTURB' = rc[2]
  /\ seed' = sd /\ run' = 1
  /\ StartGenerate(sd)
  /\ UNCHANGED <<prev, gi, j, template, template_id, row_seed, filled, rng,
                 fillVars, sampleVars, applyVars, ret, err, auxVars>>

\* for intent in INTENTS: if intent not in TEMPLATES: raise KeyError
GenIntent ==
  /\ pc = "gen_intent"
  /\ IF ii > Len(INTENTS)
     THEN pc' = "gen_validate" /\ UNCHANGED <<gi, err>>
     ELSE IF INTENTS[ii] \notin DOMAIN TEMPLATES
          THEN /\ pc' = "raised"
               /\ err' = [type |-> "KeyError",
                          msg |-> "Missing intent in TEMPLATES: " \o INTENTS[ii]]
               /\ UNCHANGED gi
          ELSE pc' = "gen_family" /\ gi' = 1 /\ UNCHANGED err
  /\ UNCHANGED <<op, config, N_PERTURB, seed, run, prev, global_rng, rows, ii, j,
                 template, template_id, row_seed, filled, rng,
                 fillVars, sampleVars, applyVars, ret, auxVars>>

\* for gen in GENERATORS: the two checks, template = templates[0], template_id
GenFamily ==
  /\ pc = "gen_family"
  /\ IF gi > Len(GENERATORS)
     THEN pc' = "gen_intent" /\ ii' = ii + 1 /\ UNCHANGED <<j, template, template_id, err>>
     ELSE LET intent == INTENTS[ii]
              gen == GENERATORS[gi]
          IN IF gen \notin DOMAIN TEMPLATES[intent]
             THEN /\ pc' = "raised"
                  /\ err' = [type |-> "KeyError",
                             msg |-> "Missing generator '" \o gen
                                       \o "' under intent '" \o intent \o "'"]
                  /\ UNCHANGED <<ii, j, template, template_id>>
             ELSE IF TEMPLATES[intent][gen] = <<>>
                  THEN /\ pc' = "raised"
                       /\ err' = [type |-> "ValueError",
                                  msg |-> "No templates for intent='" \o intent
                                            \o "', gen='" \o gen \o "'"]
                       /\ UNCHANGED <<ii, j, template, template_id>>
                  ELSE /\ template' = TEMPLATES[intent][gen][1]
                       /\ template_id' =
                            stable_template_id(intent, gen, 0, TEMPLATES[intent][gen][1])
                       /\ j' = 0
                       /\ pc' = "gen_row"
                       /\ UNCHANGED <<ii, err>>
  /\ UNCHANGED <<op, config, N_PERTURB, seed, run, prev, global_rng, rows, gi,
                 row_seed, filled, rng, fillVars, sampleVars, applyVars, ret, auxVars>>

\* Mutant of Replicates: the replicate loop stops one short.
ReplicatesShort == N_PER_GENERATOR - 1

\* range(N_PER_GENERATOR)
Replicates == N_PER_GENERATOR

\* Mutant of AfterRowSeedDraw: the global source is advanced twice per row.
AfterTwoDraws(g) == RngNext(RngNext(g))

\* global_rng.randint(0, 2**31 - 1): the global source after the one draw
AfterRowSeedDraw(g) == RngNext(g)

\* for j in range(N_PER_GENERATOR): row_seed, rng, and the call of fill_template
GenRow ==
  /\ pc = "gen_row"
  /\ IF j >= Replicates
     THEN /\ pc' = "gen_family" /\ gi' = gi + 1
          /\ UNCHANGED <<global_rng, row_seed, rng, fillVars>>
     ELSE LET g1 == AfterRowSeedDraw(global_rng)
          IN /\ global_rng' = g1
             /\ row_seed' = RandIntOf(MaxRowSeed, g1)
             /\ rng' = NewRandom(RandIntOf(MaxRowSeed, g1))
             /\ slots' = extract_slots(template)
             /\ values' = <<>>
             /\ si' = 1
             /\ drawn' = <<>>
             /\ pc' = "fill_loop"
             /\ UNCHANGED gi
  /\ UNCHANGED <<op, config, N_PERTURB, seed, run, prev, rows, ii, j, template,
                 template_id, filled, sampleVars, applyVars, ret, err, auxVars>>

(***************************************************************************)
(* fill_template                                                           *)
(***************************************************************************)
CallFill(tpl, r, c) ==
  /\ pc = "idle"
  /\ op' = "fill_template" /\ config' = c
  /\ template' = tpl /\ rng' = r
  /\ slots' = extract_slots(tpl) /\ values' = <<>> /\ si' = 1 /\ drawn' = <<>>
  /\ pc' = "fill_loop"
  /\ UNCHANGED <<N_PERTURB, genVars, sampleVars, applyVars, ret, err, auxVars>>

\* Mutant of MissingSlotMessage: the message leaves the template out.
MissingSlotMessageBare(s, tpl) == "Slot '" \o s \o "' not found in SLOTS."

\* raise KeyError(f"Slot '{s}' not found in SLOTS. Template: {template}")
MissingSlotMessage(s, tpl) == "Slot '" \o s \o "' not found in SLOTS. Template: " \o tpl

\* for s in slots: raise KeyError if s not in SLOTS; values[s] = rng.choice(SLOTS[s])
FillStep ==
  /\ pc = "fill_loop"
  /\ si <= Len(slots)
  /\ LET s == slots[si]
     IN IF s \notin DOMAIN SLOTS
        THEN /\ pc' = "raised"
             /\ err' = [type |-> "KeyError", msg |-> MissingSlotMessage(s, template)]
             /\ UNCHANGED <<rng, values, si, drawn>>
        ELSE LET s1 == RngNext(rng)
                 v == ChoiceOf(SLOTS[s], s1)
             IN /\ rng' = s1
                /\ values' = SetValue(values, s, v)
                /\ drawn' = Append(drawn, [slot |-> s, value |-> v])
                /\ si' = si + 1
                /\ UNCHANGED <<pc, err>>
  /\ UNCHANGED <<op, config, N_PERTURB, genVars, template, slots,
                 sampleVars, applyVars, ret, auxVars>>

\* return template.format(**values)
FillReturn ==
  /\ pc = "fill_loop"
  /\ si > Len(slots)
  /\ IF op = "fill_template"
     THEN /\ ret' = Format(template, values)
          /\ pc' = "returned"
          /\ UNCHANGED filled
     ELSE /\ filled' = Format(template, values)
          /\ pc' = "gen_perturb"
          /\ UNCHANGED ret
  /\ UNCHANGED <<op, config, N_PERTURB, seed, run, prev, global_rng, rows, ii, gi, j,
                 template, template_id, row_seed, rng, fillVars,
                 sampleVars, applyVars, err, auxVars>>

(***************************************************************************)
(* apply_perturbations and sample_perturbations                            *)
(***************************************************************************)
\* generate: perturbed, applied = apply_perturbations(filled, rng, n=N_PERTURB)
GenPerturb ==
  /\ pc = "gen_perturb"
  /\ text' = filled /\ n' = N_PERTURB
  /\ pc' = "apply_enter"
  /\ UNCHANGED <<op, config, N_PERTURB, genVars, template, rng, fillVars,
                 chosen, out, applied, ai, calls, ret, err, auxVars>>

CallApply(t, r, k) ==
  /\ pc = "idle"
  /\ op' = "apply_perturbations"
  /\ text' = t /\ rng' = r /\ n' = k
  /\ pc' = "apply_enter"
  /\ UNCHANGED <<config, N_PERTURB, genVars, template, fillVars,
                 chosen, out, applied, ai, calls, ret, err, auxVars>>

\* applied = []; out = text; then the call of sample_perturbations(rng, n=n)
ApplyEnter ==
  /\ pc = "apply_enter"
  /\ applied' = <<>> /\ out' = text /\ calls' = <<>>
  /\ pc' = "sample_enter"
  /\ UNCHANGED <<op, config, N_PERTURB, genVars, template, rng, fillVars,
                 sampleVars, text, ai, ret, err, auxVars>>

CallSample(r, k) ==
  /\ pc = "idle"
  /\ op' = "sample_perturbations"
  /\ rng' = r /\ n' = k
  /\ pc' = "sample_enter"
  /\ UNCHANGED <<config, N_PERTURB, genVars, template, fillVars,
                 chosen, applyVars, ret, err, auxVars>>

\* if n <= 0: return []; chosen = []; chosen_names = set()
SampleEnter ==
  /\ pc = "sample_enter"
  /\ chosen' = <<>>
  /\ draws' = 0
  /\ pc' = IF n <= 0 THEN "sample_done" ELSE "sample_loop"
  /\ UNCHANGED <<op, config, N_PERTURB, genVars, template, rng, fillVars,
                 n, applyVars, ret, err, rng_sampled, saveVars>>

\* Mutant of IsDuplicate: the duplicate test is left out.
NeverDuplicate(pick, ch) == FALSE

\* if pick[0] in chosen_names: continue
IsDuplicate(pick, ch) == pick.name \in ChosenNames(ch)

\* Mutant of LoopContinues: the loop asks for one name more than n.
LoopContinuesOneMore(ch, k) == Len(ch) <= k

\* while len(chosen) < n
LoopContinues(ch, k) == Len(ch) < k

\* One evaluation of the while condition and, when it holds, one iteration:
\* the weighted draw, the duplicate test, the append and the safety break.
SampleLoop ==
  /\ pc = "sample_loop"
  /\ IF LoopContinues(chosen, n)
     THEN LET s1 == RngNext(rng)
              pick == ChoicesOf(s1)
          IN /\ rng' = s1
             /\ draws' = draws + 1
             /\ IF IsDuplicate(pick, chosen)
                THEN UNCHANGED <<chosen, pc>>
                ELSE /\ chosen' = Append(chosen,
                                         [name |-> pick.name, uses_rng |-> pick.uses_rng])
                     /\ pc' = IF Cardinality(ChosenNames(chosen) \cup {pick.name})
                                   = RegistrySize
                              THEN "sample_done" ELSE "sample_loop"
     ELSE pc' = "sample_done" /\ UNCHANGED <<rng, chosen, draws>>
  /\ UNCHANGED <<op, config, N_PERTURB, genVars, template, fillVars,
                 n, applyVars, ret, err, rng_sampled, saveVars>>

\* return chosen
SampleReturn ==
  /\ pc = "sample_done"
  /\ IF op = "sample_perturbations"
     THEN ret' = chosen /\ pc' = "returned" /\ UNCHANGED ai
     ELSE ai' = 1 /\ pc' = "apply_loop" /\ UNCHANGED ret
  /\ rng_sampled' = rng
  /\ UNCHANGED <<op, config, N_PERTURB, genVars, template, rng, fillVars,
                 sampleVars, text, out, applied, calls, err, draws, saveVars>>

\* Mutant of NextSampled: the sample is walked from its end.
NextSampledReversed(ch, k) == ch[Len(ch) - k + 1]

\* the element the for loop over the sample visits at its k-th iteration
NextSampled(ch, k) == ch[k]

\* Mutant of LogApplied: a transform that left the text unchanged is not logged.
LogOnlyChanges(app, name, before, after) ==
  IF before = after THEN app ELSE Append(app, name)

\* applied.append(name)
LogApplied(app, name, before, after) == Append(app, name)

\* Mutant of SourcePassed: the transform is given a source of its own.
SourceFresh(r) == NewRandom(0)

\* out = fn(out, rng): the random source the transform is called with
SourcePassed(r) == r

\* for name, fn, uses_rng in <sample>: out = fn(out, rng) or fn(out); log name
ApplyStep ==
  /\ pc = "apply_loop"
  /\ ai <= Len(chosen)
  /\ LET p == NextSampled(chosen, ai)
         before == out
         res == IF p.uses_rng
                THEN CallWithRng(p.name, out, SourcePassed(rng))
                ELSE [out |-> CallPure(p.name, out), rng |-> rng]
     IN /\ out' = res.out
        /\ rng' = res.rng
        /\ applied' = LogApplied(applied, p.name, before, res.out)
        /\ calls' = Append(calls, [name |-> p.name, uses_rng |-> p.uses_rng,
                                   input |-> before, output |-> res.out,
                                   rng_before |-> IF p.uses_rng THEN SourcePassed(rng)
                                                  ELSE rng,
                                   rng_after |-> res.rng])
        /\ ai' = ai + 1
  /\ UNCHANGED <<op, pc, config, N_PERTURB, genVars, template, fillVars,
                 sampleVars, text, ret, err, auxVars>>

\* return out, applied
ApplyReturn ==
  /\ pc = "apply_loop"
  /\ ai > Len(chosen)
  /\ IF op = "apply_perturbations"
     THEN ret' = [text |-> out, applied |-> applied] /\ pc' = "returned"
     ELSE pc' = "gen_append" /\ UNCHANGED ret
  /\ UNCHANGED <<op, config, N_PERTURB, genVars, template, rng, fillVars,
                 sampleVars, applyVars, err, auxVars>>

(***************************************************************************)
(* generate: the row, the post-assembly checks, the return                 *)
(***************************************************************************)
\* Mutant of JoinNames: the names are joined with a comma.
JoinWithComma(app) == Join(app, ",")

\* ";".join(applied)
JoinNames(app) == Join(app, ";")

\* msg_id = make_message_id(intent, gen, j); rows.append({...}); next j
GenAppend ==
  /\ pc = "gen_append"
  /\ LET intent == INTENTS[ii]
         gen == GENERATORS[gi]
         split == generator_split(gen)
     IN IF split.raised
        THEN /\ pc' = "raised"
             /\ err' = [type |-> "ValueError", msg |-> split.value]
             /\ UNCHANGED <<rows, j>>
        ELSE /\ rows' = Append(rows,
                  [message_id            |-> make_message_id(intent, gen, j),
                   text                  |-> out,
                   lang                  |-> LANG,
                   source                |-> SOURCE,
                   intent_gold           |-> intent,
                   generator_id          |-> gen,
                   template_id           |-> template_id,
                   seed                  |-> row_seed,
                   split                 |-> split.value,
                   length_chars          |-> Len(out),
                   has_question_mark     |-> Contains(out, "?"),
                   applied_perturbations |-> JoinNames(applied)])
             /\ j' = j + 1
             /\ pc' = "gen_row"
             /\ UNCHANGED err
  /\ UNCHANGED <<op, config, N_PERTURB, seed, run, prev, global_rng, ii, gi,
                 template, template_id, row_seed, filled, rng, fillVars,
                 sampleVars, applyVars, ret, auxVars>>

\* expected = len(INTENTS) * len(GENERATORS) * N_PER_GENERATOR
Expected == Len(INTENTS) * Len(GENERATORS) * N_PER_GENERATOR

\* len(df) != expected
RowCountMismatch(df) == Len(df) # Expected

\* df.groupby(["intent_gold", "generator_id"]).size()
Groups(df) == { <<df[k].intent_gold, df[k].generator_id>> : k \in 1..Len(df) }

GroupSize(df, grp) ==
  Cardinality({ k \in 1..Len(df) : <<df[k].intent_gold, df[k].generator_id>> = grp })

\* (grp != N_PER_GENERATOR).any()
Unbalanced(df) == \E grp \in Groups(df) : GroupSize(df, grp) # N_PER_GENERATOR

\* Mutant of PerturbCountMismatch: the per-row count check is left out.
NoPerturbCountCheck(df) == FALSE

\* not (counts == N_PERTURB).all()
PerturbCountMismatch(df) ==
  \E k \in 1..Len(df) : CountNames(df[k].applied_perturbations) # N_PERTURB

\* df = pd.DataFrame(rows); the three fail-fast checks; return df
GenValidate ==
  /\ pc = "gen_validate"
  /\ IF RowCountMismatch(rows)
     THEN /\ pc' = "raised"
          /\ err' = [type |-> "AssertionError",
                     msg |-> "Row count mismatch: got " \o IntToStr(Len(rows))
                               \o " expected " \o IntToStr(Expected)]
          /\ UNCHANGED ret
     ELSE IF Unbalanced(rows)
          THEN /\ pc' = "raised"
               /\ err' = [type |-> "AssertionError", msg |-> "Unbalanced groups"]
               /\ UNCHANGED ret
          ELSE IF PerturbCountMismatch(rows)
               THEN /\ pc' = "raised"
                    /\ err' = [type |-> "AssertionError",
                               msg |-> "Perturbation count mismatch in some rows."]
                    /\ UNCHANGED ret
               ELSE /\ pc' = "returned"
                    /\ ret' = rows
                    /\ UNCHANGED err
  /\ UNCHANGED <<op, config, N_PERTURB, genVars, template, rng, fillVars,
                 sampleVars, applyVars, auxVars>>

\* A second, independent run of generate with the same seed and configuration.
GenerateAgain ==
  /\ pc = "returned" /\ op = "generate" /\ run = 1
  /\ prev' = ret
  /\ run' = 2
  /\ StartGenerate(seed)
  /\ UNCHANGED <<op, config, N_PERTURB, seed, gi, j, template, template_id,
                 row_seed, filled, rng, fillVars, sampleVars, applyVars, ret, err, auxVars>>

(***************************************************************************)
(* generator_split, called on its own                                      *)
(***************************************************************************)
CallSplit(g) ==
  /\ pc = "idle"
  /\ op' = "generator_split"
  /\ LET split == generator_split(g)
     IN IF split.raised
        THEN /\ pc' = "raised"
             /\ err' = [type |-> "ValueError", msg |-> split.value]
             /\ ret' = g
        ELSE /\ pc' = "returned"
             /\ ret' = [generator_id |-> g, split |-> split.value]
             /\ UNCHANGED err
  /\ UNCHANGED <<config, N_PERTURB, genVars, template, rng, fillVars,
                 sampleVars, applyVars, auxVars>>

SplitArguments == { GENERATORS[k] : k \in 1..Len(GENERATORS) } \cup {"paraphrase"}

(***************************************************************************)
(* stable_template_id, called on its own                                   *)
(***************************************************************************)
\* arguments stable_template_id is called with: taxonomy-like labels, and
\* labels that contain the separator's character
IdIntents == {"how_to", "a", "a|", "a||b"}
IdGenerators == {"direct", "b", "|b", "b||c", "c"}
IdIndexes == {0, 1, 10}
IdTexts == {"", "x", "1||x", "How do I {task}?"}
IdTuples == IdIntents \X IdGenerators \X IdIndexes \X IdTexts

\* payload = f"{intent}||{generator}||{index}||{text}"; return "tpl_" + digest
CallTemplateId(intent, generator, index, txt) ==
  /\ pc = "idle"
  /\ op' = "stable_template_id"
  /\ ret' = [intent |-> intent, generator |-> generator, index |-> index,
             text |-> txt,
             payload |-> TemplatePayload(intent, generator, index, txt),
             id |-> stable_template_id(intent, generator, index, txt)]
  /\ pc' = "returned"
  /\ UNCHANGED <<config, N_PERTURB, genVars, template, rng, fillVars,
                 sampleVars, applyVars, err, auxVars>>

(***************************************************************************)
(* save                                                                    *)
(***************************************************************************)
\* df = generate(seed=...); save(df): dirs = ensure_output_dirs()
CallSave ==
  /\ pc = "returned" /\ op = "generate"
  /\ op' = "save"
  /\ pc' = "save_csv"
  /\ UNCHANGED <<config, N_PERTURB, genVars, template, rng, fillVars,
                 sampleVars, applyVars, ret, err, auxVars>>

\* df.to_csv(csv_path, index=False): it completes, or it raises and the
\* exception leaves save
SaveCsv(ok) ==
  /\ pc = "save_csv"
  /\ IF ok
     THEN csv_written' = TRUE /\ pc' = "save_parquet" /\ UNCHANGED err
     ELSE /\ pc' = "raised"
          /\ err' = [type |-> "OSError", msg |-> "messages.csv"]
          /\ UNCHANGED csv_written
  /\ UNCHANGED <<op, config, N_PERTURB, genVars, template, rng, fillVars,
                 sampleVars, applyVars, ret, histVars, parquet_state, printed>>

\* Mutant of OnParquetError: no handler, the exception leaves save.
ParquetErrorPropagates(pr) ==
  [pc |-> "raised", printed |-> pr,
   err |-> [type |-> "ImportError", msg |-> "messages.parquet"]]

\* except Exception as e: print(f"[WARN] Could not write parquet: {e}")
OnParquetError(pr) ==
  [pc |-> "save_report",
   printed |-> Append(pr, "[WARN] Could not write parquet: messages.parquet"),
   err |-> NoError]

\* try: df.to_parquet(parquet_path, index=False), which completes or raises
SaveParquet(ok) ==
  /\ pc = "save_parquet"
  /\ IF ok
     THEN parquet_state' = "written" /\ pc' = "save_report"
          /\ UNCHANGED <<printed, err>>
     ELSE LET h == OnParquetError(printed)
          IN /\ parquet_state' = "failed"
             /\ pc' = h.pc
             /\ printed' = h.printed
             /\ err' = h.err
  /\ UNCHANGED <<op, config, N_PERTURB, genVars, template, rng, fillVars,
                 sampleVars, applyVars, ret, histVars, csv_written>>

\* the two [OK] lines; save returns None
SaveReport ==
  /\ pc = "save_report"
  /\ printed' = printed \o <<"[OK] Wrote: messages.csv",
                              "[OK] Wrote: messages.parquet (if supported)">>
  /\ ret' = "None"
  /\ pc' = "returned"
  /\ UNCHANGED <<op, config, N_PERTURB, genVars, template, rng, fillVars,
                 sampleVars, applyVars, err, histVars, csv_written, parquet_state>>

(***************************************************************************)
(* check_slots.py                                                          *)
(***************************************************************************)
\* extract_slots_from_templates(): the placeholders of every template of
\* every intent and generator family
extract_slots_from_templates(tpls) ==
  UNION { UNION { UNION { { extract_slots(tpls[i][g][k])[m] :
                              m \in 1..Len(extract_slots(tpls[i][g][k])) } :
                          k \in 1..Len(tpls[i][g]) } :
                  g \in DOMAIN tpls[i] } :
          i \in DOMAIN tpls }

\* sorted(...) of a set of the vocabulary's slot names
SlotOrder == <<"concept", "constraint", "phenomenon", "task", "tool">>
SortedSlots(set) == SelectSeq(SlotOrder, LAMBDA s : s \in set)

\* the "  - <slot>" lines of a sorted set
RECURSIVE BulletLines(_)
BulletLines(seq) ==
  IF seq = <<>> THEN <<>> ELSE <<"  - " \o Head(seq)>> \o BulletLines(Tail(seq))

\* missing = used_slots - defined_slots
MissingSlots(c) == extract_slots_from_templates(TemplatesOf(c)) \ DOMAIN SlotsOf(c)

\* unused = defined_slots - used_slots
UnusedSlots(c) == DOMAIN SlotsOf(c) \ extract_slots_from_templates(TemplatesOf(c))

\* main(): the two sets, the report lines, the implicit return None.  The
\* marks at the head of the report lines stand for the source's pictographs.
CheckSlotsMain(c) ==
  /\ pc = "idle"
  /\ op' = "check_slots.main"
  /\ config' = c
  /\ printed' =
       <<"Used slots:", "Defined slots:">>
         \o (IF MissingSlots(c) # {}
             THEN <<"[X] Missing slots in slot_pools.py:">>
                    \o BulletLines(SortedSlots(MissingSlots(c)))
             ELSE <<"[OK] All used slots are defined.">>)
         \o (IF UnusedSlots(c) # {}
             THEN <<"[i] Slots defined but not used in any template (OK for now):">>
                    \o BulletLines(SortedSlots(UnusedSlots(c)))
             ELSE <<>>)
  /\ ret' = "None"
  /\ pc' = "returned"
  /\ UNCHANGED <<N_PERTURB, genVars, template, rng, fillVars,
                 sampleVars, applyVars, err, histVars, csv_written, parquet_state>>

(***************************************************************************)
(* Specification                                                           *)
(***************************************************************************)
RngStates == 0..(RngMod - 1)

Next ==
  \/ \E sd \in Seeds, rc \in RunConfigs : CallGenerate(sd, rc)
  \/ GenIntent
  \/ GenFamily
  \/ GenRow
  \/ \E tpl \in CallTemplates, r \in RngStates, c \in {"locked", "missing_slot"} :
       CallFill(tpl, r, c)
  \/ FillStep
  \/ FillReturn
  \/ GenPerturb
  \/ \E t \in CallTexts, r \in RngStates, k \in PerturbCounts : CallApply(t, r, k)
  \/ ApplyEnter
  \/ \E r \in RngStates, k \in PerturbCounts : CallSample(r, k)
  \/ SampleEnter
  \/ SampleLoop
  \/ SampleReturn
  \/ ApplyStep
  \/ ApplyReturn
  \/ GenAppend
  \/ GenValidate
  \/ GenerateAgain
  \/ \E g \in SplitArguments : CallSplit(g)
  \/ \E t \in IdTuples : CallTemplateId(t[1], t[2], t[3], t[4])
  \/ CallSave
  \/ \E ok \in BOOLEAN : SaveCsv(ok)
  \/ \E ok \in BOOLEAN : SaveParquet(ok)
  \/ SaveReport
  \/ \E c \in {"locked"} \cup BrokenConfigs : CheckSlotsMain(c)

Spec == Init /\ [][Next]_vars

(***************************************************************************)
(* Properties                                                              *)
(***************************************************************************)
Min(a, b) == IF a < b THEN a ELSE b
Max(a, b) == IF a > b THEN a ELSE b

\* The entry of the registry with the given name and flag exists.
InRegistry(e) ==
  \E k \in 1..RegistrySize :
    PERTURBATIONS[k].name = e.name /\ PERTURBATIONS[k].uses_rng = e.uses_rng

\* C1: when sample_perturbations finishes, the list it returns holds pairwise
\* distinct names, every entry is an entry of the registry, it has exactly n
\* entries when 1 <= n <= registry size, and it is the whole registry, each
\* entry once, when n exceeds the registry size; the call raises nothing.
C1_SampleContract ==
  /\ pc = "sample_done" =>
       /\ Cardinality(ChosenNames(chosen)) = Len(chosen)
       /\ \A k \in 1..Len(chosen) : InRegistry(chosen[k])
       /\ (1 <= n /\ n <= RegistrySize) => Len(chosen) = n
       /\ n > RegistrySize =>
            Len(chosen) = RegistrySize /\ ChosenNames(chosen) = RegistryNames
  /\ op = "sample_perturbations" =>
       /\ pc # "raised"
       /\ pc = "returned" => ret = chosen

\* C1 witness: a call asking for more than the registry holds has returned
\* the whole registry.
C1_Witness ==
  /\ op = "sample_perturbations" /\ pc = "returned"
  /\ n > RegistrySize
  /\ Len(ret) = RegistrySize

\* C2 as claimed: apply_perturbations returns exactly n applied names for
\* every requested n (stated here for the requests n >= 0).
C2_ExactlyN_Original ==
  (op = "apply_perturbations" /\ pc = "returned" /\ n >= 0) => Len(ret.applied) = n

\* C2 amended: apply_perturbations returns exactly n applied names when
\* 0 <= n <= registry size, unchanged texts included, exactly registry-size
\* names when n is larger, and none when n is negative.
C2_AppliedCount ==
  /\ (op = "apply_perturbations" /\ pc = "returned") =>
       Len(ret.applied) = Min(Max(n, 0), RegistrySize)
  /\ pc = "gen_append" => Len(applied) = Min(Max(n, 0), RegistrySize)

\* C2 witness: a call has returned n >= 1 names although one of its
\* transforms left the text unchanged.
C2_Witness ==
  /\ op = "apply_perturbations" /\ pc = "returned"
  /\ n >= 1 /\ Len(ret.applied) = n
  /\ \E k \in 1..Len(calls) : calls[k].input = calls[k].output

\* The taxonomy's cells.
Cells == { <<INTENTS[a], GENERATORS[b]>> : a \in 1..Len(INTENTS), b \in 1..Len(GENERATORS) }

\* C3: under every configured N from 1 to the registry size, every row that
\* generate assembles has exactly N names in its ';'-joined
\* applied_perturbations column, so does every row of the dataset returned,
\* and the perturbation-count check never raises.
C3_RowPerturbCount ==
  (op = "generate" /\ 1 <= N_PERTURB /\ N_PERTURB <= RegistrySize) =>
    /\ \A k \in 1..Len(rows) : CountNames(rows[k].applied_perturbations) = N_PERTURB
    /\ pc = "returned" =>
         \A k \in 1..Len(ret) : CountNames(ret[k].applied_perturbations) = N_PERTURB
    /\ pc = "raised" => ~StartsWith(err.msg, "Perturbation count mismatch")

\* C3 witness: generate has returned a full dataset with N equal to the
\* registry size.
C3_Witness ==
  /\ op = "generate" /\ pc = "returned"
  /\ N_PERTURB = RegistrySize
  /\ Len(ret) = Expected
  /\ CountNames(ret[1].applied_perturbations) = RegistrySize

\* C4: a second run of generate with the same seed and configuration builds
\* the same rows as the first, field by field and in the same order, and
\* returns the same dataset.
C4_Determinism ==
  (op = "generate" /\ run = 2) =>
    /\ Len(rows) <= Len(prev)
    /\ \A k \in 1..Len(rows) : rows[k] = prev[k]
    /\ pc # "raised"
    /\ pc = "returned" => ret = prev

\* C4 witness: the second run has returned a full dataset.
C4_Witness ==
  /\ op = "generate" /\ run = 2 /\ pc = "returned"
  /\ Len(ret) = Expected /\ Len(prev) = Expected
  /\ N_PERTURB = N_PERTURB_LOCKED

\* C5: once the loops over the cells have finished, and in every dataset
\* returned, there are #intents * #generators * N_PER_GENERATOR rows and every
\* (intent, generator) cell has exactly N_PER_GENERATOR of them; the row-count
\* and balance checks never raise.
C5_RowCounts ==
  op = "generate" =>
    /\ pc \in {"gen_validate", "returned"} =>
         /\ Len(rows) = Len(INTENTS) * Len(GENERATORS) * N_PER_GENERATOR
         /\ \A c \in Cells : GroupSize(rows, c) = N_PER_GENERATOR
    /\ pc = "returned" =>
         /\ Len(ret) = Len(INTENTS) * Len(GENERATORS) * N_PER_GENERATOR
         /\ \A c \in Cells : GroupSize(ret, c) = N_PER_GENERATOR
    /\ pc = "raised" =>
         /\ ~StartsWith(err.msg, "Row count mismatch")
         /\ ~StartsWith(err.msg, "Unbalanced groups")

\* C5 witness: a first run has returned, every cell holding its replicates.
C5_Witness ==
  /\ op = "generate" /\ run = 1 /\ pc = "returned"
  /\ Len(ret) = Expected
  /\ \A c \in Cells : GroupSize(ret, c) = N_PER_GENERATOR

\* C6: every row's split is train_gen exactly when its generator is in
\* TRAIN_GENS and test_gen exactly when it is in TEST_GENS, and no other label
\* occurs; generator_split raises exactly for a generator in neither set; the
\* two sets are disjoint and cover GENERATORS, so generate never raises from
\* generator_split.
C6_SplitLabels ==
  /\ TRAIN_GENS \cap TEST_GENS = {}
  /\ TRAIN_GENS \cup TEST_GENS = { GENERATORS[k] : k \in 1..Len(GENERATORS) }
  /\ \A k \in 1..Len(rows) :
       /\ rows[k].split \in {"train_gen", "test_gen"}
       /\ rows[k].split = "train_gen" <=> rows[k].generator_id \in TRAIN_GENS
       /\ rows[k].split = "test_gen" <=> rows[k].generator_id \in TEST_GENS
  /\ (op = "generate" /\ pc = "raised") => ~StartsWith(err.msg, "Unknown generator_id")
  /\ (op = "generator_split" /\ pc = "returned") =>
       /\ ret.split \in {"train_gen", "test_gen"}
       /\ ret.split = "train_gen" <=> ret.generator_id \in TRAIN_GENS
       /\ ret.split = "test_gen" <=> ret.generator_id \in TEST_GENS
  /\ (op = "generator_split" /\ pc = "raised") => ret \notin TRAIN_GENS \cup TEST_GENS

\* C6 witness: a returned dataset holds rows of both labels.
C6_Witness ==
  /\ op = "generate" /\ pc = "returned"
  /\ \E a, b \in 1..Len(ret) :
       /\ ret[a].split = "train_gen" /\ ret[a].generator_id \in TRAIN_GENS
       /\ ret[b].split = "test_gen" /\ ret[b].generator_id \in TEST_GENS

\* The template with its k-th placeholder replaced by the k-th draw.
RECURSIVE FormatOccFrom(_, _, _, _)
FormatOccFrom(s, i, dr, k) ==
  LET b == FindChar(s, "{", i)
      e == FindChar(s, "}", b + 1)
  IN IF b > Len(s) THEN SubSeq(s, i, Len(s))
     ELSE SubSeq(s, i, b - 1) \o dr[k].value \o FormatOccFrom(s, e + 1, dr, k + 1)

FormatByOccurrence(tpl, dr) == FormatOccFrom(tpl, 1, dr, 1)

\* For every slot drawn, the value of the last draw made for it.
LastDraws(dr) ==
  [s \in { dr[k].slot : k \in 1..Len(dr) } |->
     dr[CHOOSE k \in 1..Len(dr) :
          dr[k].slot = s /\ \A m \in (k + 1)..Len(dr) : dr[m].slot # s].value]

\* C7 as claimed: the text fill_template returns has every occurrence of a
\* placeholder replaced by that occurrence's own draw.
C7_OwnDraw_Original ==
  (op = "fill_template" /\ pc = "returned") => ret = FormatByOccurrence(template, drawn)

\* C7 amended: fill_template makes one draw per placeholder occurrence, in
\* order, but every occurrence of a slot name is replaced by the same value,
\* the last one drawn for that name.
C7_LastDrawWins ==
  /\ (pc = "fill_loop" \/ (op = "fill_template" /\ pc = "returned") \/ pc = "gen_perturb") =>
       /\ Len(drawn) <= Len(slots)
       /\ \A k \in 1..Len(drawn) :
            drawn[k].slot = slots[k] /\ \E m \in 1..Len(SLOTS[slots[k]]) :
                                          SLOTS[slots[k]][m] = drawn[k].value
  /\ (op = "fill_template" /\ pc = "returned") =>
       Len(drawn) = Len(slots) /\ ret = Format(template, LastDraws(drawn))
  /\ pc = "gen_perturb" =>
       Len(drawn) = Len(slots) /\ filled = Format(template, LastDraws(drawn))

\* C7 witness: fill_template has returned for a template in which one slot
\* occurs twice and the two draws differ.
C7_Witness ==
  /\ op = "fill_template" /\ pc = "returned"
  /\ \E a, b \in 1..Len(drawn) :
       a < b /\ drawn[a].slot = drawn[b].slot /\ drawn[a].value # drawn[b].value

\* The error fill_template raises for a missing slot.
IsMissingSlotError == err.type = "KeyError" /\ StartsWith(err.msg, "Slot '")

\* C8: fill_template returns a text only when every placeholder is a key of
\* the slot pools; otherwise it raises at the first missing placeholder,
\* whatever its position, with a message that names the template, and no text
\* is returned.
C8_FillFailsFast ==
  /\ (op = "fill_template" /\ pc = "returned") =>
       \A k \in 1..Len(slots) : slots[k] \in DOMAIN SLOTS
  /\ pc = "gen_perturb" => \A k \in 1..Len(slots) : slots[k] \in DOMAIN SLOTS
  /\ (pc = "raised" /\ IsMissingSlotError) =>
       /\ si <= Len(slots) /\ slots[si] \notin DOMAIN SLOTS
       /\ \A k \in 1..(si - 1) : slots[k] \in DOMAIN SLOTS
       /\ Len(drawn) = si - 1
       /\ Contains(err.msg, template)
       /\ op = "fill_template" => ret = <<>>
  /\ (op = "fill_template" /\ \E k \in 1..Len(slots) : slots[k] \notin DOMAIN SLOTS) =>
       pc \in {"fill_loop", "raised"}

\* C8 witness: a call of fill_template has raised at its second placeholder,
\* after a draw for the first.
C8_Witness ==
  /\ op = "fill_template" /\ pc = "raised" /\ IsMissingSlotError
  /\ si = 2 /\ Len(drawn) = 1

\* C9: generate returns only under a configuration without errors, and what
\* it returns is a complete dataset: the expected number of rows, every cell
\* balanced, every row with exactly N_PERTURB names.
C9_NoPartialDataset ==
  (op = "generate" /\ pc = "returned") =>
    /\ config \notin BrokenConfigs
    /\ ret = rows
    /\ Len(ret) = Len(INTENTS) * Len(GENERATORS) * N_PER_GENERATOR
    /\ \A c \in Cells : GroupSize(ret, c) = N_PER_GENERATOR
    /\ \A k \in 1..Len(ret) : CountNames(ret[k].applied_perturbations) = N_PERTURB

\* C9 witness: with N larger than the registry, generate has assembled every
\* row and ended by raising the perturbation-count error.
C9_Witness ==
  /\ op = "generate" /\ pc = "raised"
  /\ N_PERTURB > RegistrySize
  /\ Len(rows) = Expected
  /\ err.type = "AssertionError"

\* C10: apply_perturbations calls the sampled transforms in the order of the
\* sample, the first on the input text and each later one on the output of
\* the one before; the names it logs, and returns, are the sampled names in
\* that order, and the text it returns is the last output.
C10_AppliedInOrder ==
  /\ (pc \in {"apply_loop", "gen_append"} \/ (op = "apply_perturbations" /\ pc = "returned")) =>
       /\ Len(calls) <= Len(chosen)
       /\ Len(applied) = Len(calls)
       /\ \A k \in 1..Len(calls) :
            /\ calls[k].name = chosen[k].name
            /\ applied[k] = chosen[k].name
            /\ calls[k].input = IF k = 1 THEN text ELSE calls[k - 1].output
       /\ out = IF calls = <<>> THEN text ELSE calls[Len(calls)].output
  /\ (pc = "gen_append" \/ (op = "apply_perturbations" /\ pc = "returned")) =>
       Len(calls) = Len(chosen)
  /\ (op = "apply_perturbations" /\ pc = "returned") =>
       ret.applied = applied /\ ret.text = out

\* C10 witness: a call has returned after three or more transforms, the
\* first two of which changed the text.
C10_Witness ==
  /\ op = "apply_perturbations" /\ pc = "returned"
  /\ Len(calls) >= 3
  /\ calls[1].output # calls[1].input
  /\ calls[2].output # calls[2].input
  /\ calls[2].input = calls[1].output

(***************************************************************************)
(* C11                                                                     *)
(***************************************************************************)
IdReturned == op = "stable_template_id" /\ pc = "returned"

HasBar(s) == Contains(s, "|")

\* the tuples that differ from the called one in exactly one field
OneFieldChanged(t) ==
  Cardinality({ k \in 1..4 :
                  t[k] # <<ret.intent, ret.generator, ret.index, ret.text>>[k] }) = 1

\* C11 (as stated): the string stable_template_id digests is an unambiguous
\* encoding of its four fields: no tuple other than the one it was called
\* with gives the same concatenation.
C11_Unambiguous_Original ==
  IdReturned =>
    \A t \in IdTuples :
      t # <<ret.intent, ret.generator, ret.index, ret.text>>
        => TemplatePayload(t[1], t[2], t[3], t[4]) # ret.payload

\* C11 (amended): changing exactly one field changes the digested string;
\* and when neither intent nor generator label contains the character "|",
\* no other such tuple gives the same concatenation.
C11_UnambiguousForLabels ==
  IdReturned =>
    /\ ret.payload = ret.intent \o "||" \o ret.generator \o "||"
                        \o IntToStr(ret.index) \o "||" \o ret.text
    /\ \A t \in IdTuples :
         OneFieldChanged(t) => TemplatePayload(t[1], t[2], t[3], t[4]) # ret.payload
    /\ (~HasBar(ret.intent) /\ ~HasBar(ret.generator)) =>
         \A t \in IdTuples :
           (/\ ~HasBar(t[1]) /\ ~HasBar(t[2])
            /\ t # <<ret.intent, ret.generator, ret.index, ret.text>>)
             => TemplatePayload(t[1], t[2], t[3], t[4]) # ret.payload

C11_Witness ==
  /\ IdReturned
  /\ ret.intent = "how_to" /\ ret.generator = "direct"
  /\ ret.index = 10 /\ ret.text = "1||x"
  /\ ret.payload = "how_to||direct||10||1||x"

(***************************************************************************)
(* C12                                                                     *)
(***************************************************************************)
\* the number of rows before position k that belong to the cell of row k
IndexInCell(df, k) ==
  Cardinality({ m \in 1..(k - 1) :
                  /\ df[m].intent_gold = df[k].intent_gold
                  /\ df[m].generator_id = df[k].generator_id })

\* the four decimal digits of a number below 10000
FourDigits(k) ==
  CharAt("0123456789", ((k \div 1000) % 10) + 1)
    \o CharAt("0123456789", ((k \div 100) % 10) + 1)
    \o CharAt("0123456789", ((k \div 10) % 10) + 1)
    \o CharAt("0123456789", (k % 10) + 1)

\* C12: every row's message id is msg_<intent>_<generator>_<replicate index
\* as four digits>, the index counts the rows of the cell from 0 in
\* generation order and stays below N_PER_GENERATOR, and no two rows of the
\* dataset (while it is built and when it is returned) share a message id.
C12_MessageIds ==
  op = "generate" =>
    /\ \A k \in 1..Len(rows) :
         /\ IndexInCell(rows, k) \in 0..(N_PER_GENERATOR - 1)
         /\ rows[k].message_id =
              "msg_" \o rows[k].intent_gold \o "_" \o rows[k].generator_id
                \o "_" \o FourDigits(IndexInCell(rows, k))
    /\ \A k, m \in 1..Len(rows) :
         k # m => rows[k].message_id # rows[m].message_id
    /\ pc = "returned" => ret = rows

C12_Witness ==
  /\ op = "generate" /\ pc = "returned"
  /\ Len(ret) = Expected
  /\ ret[1].message_id = "msg_information_seeking_direct_0000"
  /\ ret[Expected].message_id = "msg_how_to_noisy_0001"

(***************************************************************************)
(* C13                                                                     *)
(***************************************************************************)
Warned ==
  \E k \in 1..Len(printed) : StartsWith(printed[k], "[WARN] Could not write parquet")

\* C13: in save the CSV write has completed before the parquet write is
\* attempted, and a parquet write that raises neither aborts save nor undoes
\* the CSV: save goes on to its report and returns normally, with only a
\* warning printed.
C13_ParquetFailureTolerated ==
  op = "save" =>
    /\ (pc \in {"save_parquet", "save_report"} \/ parquet_state # "none")
         => csv_written
    /\ parquet_state = "failed" =>
         /\ pc \in {"save_report", "returned"}
         /\ csv_written
         /\ err = NoError
         /\ Warned
    /\ pc = "raised" => (~csv_written /\ parquet_state = "none")
    /\ pc = "returned" => (csv_written /\ parquet_state # "none" /\ ret = "None")

C13_Witness ==
  /\ op = "save" /\ pc = "returned"
  /\ parquet_state = "failed"
  /\ csv_written
  /\ Warned
  /\ err = NoError

(***************************************************************************)
(* C14                                                                     *)
(***************************************************************************)
\* C14: check_slots fails fast: whenever a placeholder used in a template
\* is not a key of the slot pools, check_slots.main ends in a failure and
\* does not complete normally.
C14_CheckSlotsFailsFast ==
  (op = "check_slots.main" /\ pc \in {"returned", "raised"}
     /\ MissingSlots(config) # {})
    => (pc = "raised" /\ err # NoError)

(***************************************************************************)
(* C15                                                                     *)
(***************************************************************************)
\* the random source k draws after state s
RECURSIVE RngIter(_, _)
RngIter(s, k) == IF k = 0 THEN s ELSE RngNext(RngIter(s, k - 1))

\* the positions of generate at which a row is being built
RowSteps == {"fill_loop", "gen_perturb", "apply_enter", "sample_enter",
             "sample_loop", "sample_done", "apply_loop", "gen_append"}

\* C15: during generate the global random source is advanced exactly once
\* per row, in intent-then-generator-then-replicate order, and by nothing
\* that is done while a row is built: after k rows were started it is k draws
\* from random.Random(seed), and the k-th row's seed is the k-th draw, a
\* function of the global seed and k alone.
C15_GlobalRngPerRow ==
  (op = "generate" /\ pc # "idle") =>
    /\ \A k \in 1..Len(rows) :
         /\ rows[k].seed = RandIntOf(MaxRowSeed, RngIter(NewRandom(seed), k))
         /\ rows[k].intent_gold =
              INTENTS[((k - 1) \div (N_PER_GENERATOR * Len(GENERATORS))) + 1]
         /\ rows[k].generator_id =
              GENERATORS[(((k - 1) \div N_PER_GENERATOR) % Len(GENERATORS)) + 1]
    /\ pc \in RowSteps =>
         /\ global_rng = RngIter(NewRandom(seed), Len(rows) + 1)
         /\ row_seed = RandIntOf(MaxRowSeed, global_rng)
    /\ pc \notin (RowSteps \cup {"raised"}) =>
         global_rng = RngIter(NewRandom(seed), Len(rows))
    /\ pc = "raised" =>
         global_rng \in { RngIter(NewRandom(seed), Len(rows)),
                          RngIter(NewRandom(seed), Len(rows) + 1) }

C15_Witness ==
  /\ op = "generate" /\ pc = "apply_loop"
  /\ Len(rows) = Expected - 1
  /\ Len(calls) >= 2
  /\ \E k \in 1..Len(calls) : calls[k].uses_rng /\ calls[k].rng_after # calls[k].rng_before
  /\ global_rng = RngIter(NewRandom(seed), Expected)

(***************************************************************************)
(* C16                                                                     *)
(***************************************************************************)
Sampling == pc \in {"sample_loop", "sample_done"}

\* C16 (as stated): the retry loop of sample_perturbations is a bounded
\* retry: the weighted draws it makes never number more than the registry
\* has entries, whatever n and whatever the draws give.
C16_DrawsBounded_Original ==
  Sampling => draws <= RegistrySize

\* C16 (amended): the draws the loop accepts are bounded, the draws it makes
\* are not bounded by the registry size: at most min(n, registry size) draws
\* are accepted, every other draw repeated a chosen name and was discarded,
\* and the loop is left exactly when min(n, registry size) names are chosen.
C16_AcceptedDrawsBounded ==
  Sampling =>
    /\ Len(chosen) <= draws
    /\ Len(chosen) <= Min(Max(n, 0), RegistrySize)
    /\ Cardinality(ChosenNames(chosen)) = Len(chosen)
    /\ pc = "sample_done" => Len(chosen) = Min(Max(n, 0), RegistrySize)
    /\ n <= 0 => draws = 0
    /\ (pc = "sample_loop" /\ Len(chosen) = Min(n, RegistrySize))
         => (n < RegistrySize /\ ~LoopContinues(chosen, n))

C16_Witness ==
  /\ op = "sample_perturbations" /\ pc = "sample_done"
  /\ n = RegistrySize
  /\ Len(chosen) = RegistrySize
  /\ draws > 2 * RegistrySize

(***************************************************************************)
(* C17                                                                     *)
(***************************************************************************)
\* the positions at which the call history is that of the current sample
Applying ==
  \/ op \in {"apply_perturbations", "generate"} /\ pc \in {"apply_loop", "gen_append"}
  \/ op = "apply_perturbations" /\ pc = "returned"

\* C17: every transform flagged as consuming randomness is called with the
\* row-scoped source that sampling used, in the state sampling and the
\* calls before it left it in, and advances it; every pure transform leaves
\* the source as it was; so the source is advanced only by sampling and by
\* the flagged transforms.
C17_RngThreading ==
  Applying =>
    /\ \A k \in 1..Len(calls) :
         /\ InRegistry([name |-> calls[k].name, uses_rng |-> calls[k].uses_rng])
         /\ calls[k].rng_before =
              IF k = 1 THEN rng_sampled ELSE calls[k - 1].rng_after
         /\ ~calls[k].uses_rng => calls[k].rng_after = calls[k].rng_before
         /\ calls[k].uses_rng =>
              calls[k].rng_after \in { RngNext(calls[k].rng_before),
                                       RngNext(RngNext(calls[k].rng_before)) }
    /\ rng = IF calls = <<>> THEN rng_sampled ELSE calls[Len(calls)].rng_after

C17_Witness ==
  /\ op = "apply_perturbations" /\ pc = "returned"
  /\ Len(calls) >= 3
  /\ ~calls[1].uses_rng /\ calls[2].uses_rng /\ ~calls[3].uses_rng
  /\ calls[2].rng_before = rng_sampled
  /\ calls[2].rng_after # rng_sampled
  /\ rng = calls[2].rng_after

(***************************************************************************)
(* C18                                                                     *)
(***************************************************************************)
\* the text begins, case-insensitively, with one of the transform's hedges
BeginsWithHedge(str) ==
  \E k \in 1..Len(hedges) : StartsWith(StrLower(str), StrLower(hedges[k]))

\* C18: the hedging transform guards against duplicate hedges: a text that
\* already begins with any of the transform's own hedge phrases (in any
\* letter case) is returned unchanged by _inject_hedge.
C18_NoDuplicateHedge ==
  Applying =>
    \A k \in 1..Len(calls) :
      (calls[k].name = "inject_hedge" /\ BeginsWithHedge(calls[k].input))
        => calls[k].output = calls[k].input

============================================================================
